---- MODULE Spec2Model ----
(***************************************************************************)
(* Model of the multi-model advisor MCP server (src/src/index.ts): the     *)
(* query-models tool handler, its prompt resolution, its fan-out over the  *)
(* target models with Promise.all, and the formatting of the composite     *)
(* document.  JavaScript values are records [t, v]; strings are TLA+       *)
(* strings, so substring / length / concatenation are computed.            *)
(***************************************************************************)
EXTENDS Integers, Sequences, FiniteSets, TLC

VARIABLES pc, args, modelsToQuery, mapIdx, cb, requests, backend, responses, result,
          outOfOrder, listing, lastListing, calls

vars ==
  <<pc, args, modelsToQuery, mapIdx, cb, requests, backend, responses, result, outOfOrder,
    listing, lastListing, calls>>

-----------------------------------------------------------------------------
(* Bounds of the model *)

\* longest caller-supplied models array that is enumerated
MaxTargets == 2

\* longest catalog the backend returns
MaxCatalog == 2

-----------------------------------------------------------------------------
(* JavaScript values *)

Str(s) == [t |-> "string", v |-> s]

Undefined == [t |-> "undefined", v |-> ""]

\* a member inherited from Object.prototype (constructor, toString, ...): a function
InheritedFn == [t |-> "function", v |-> "native"]

\* JavaScript truthiness of a value (used by ||, && and ?:)
Truthy(x) == x.t = "function" \/ (x.t = "string" /\ x.v # "")

\* names every plain object inherits from Object.prototype
ObjectPrototypeKeys == {"constructor", "toString"}

\* obj[key] on a plain object with own properties `own`
Get(own, key) ==
  IF key \in DOMAIN own THEN own[key]
  ELSE IF key \in ObjectPrototypeKeys THEN InheritedFn
  ELSE Undefined

\* key in obj, on a plain object with own properties `own`
In(key, own) == key \in DOMAIN own \/ key \in ObjectPrototypeKeys

\* `${x}` in a template literal
ToStr(x) == IF x.t = "undefined" THEN "undefined" ELSE x.v

Min(a, b) == IF a < b THEN a ELSE b

\* s.substring(0, n)
Substring0(s, n) == SubSeq(s, 1, Min(n, Len(s)))

-----------------------------------------------------------------------------
(* Configuration (process.env unset: the literals of the source) *)

DEFAULT_MODELS == <<"gemma3:1b", "llama3.2:1b", "deepseek-r1:1.5b">>

DEFAULT_SYSTEM_PROMPTS ==
  ( "gemma3:1b" :> Str("You are a creative and innovative AI assistant. Think outside the box and offer novel perspectives.") )
  @@ ( "qwen2.5:1.5b-8k" :> Str("You are a supportive and empathetic AI assistant focused on human well-being. Provide considerate and balanced advice.") )
  @@ ( "deepseek-r1:1.5b-8k" :> Str("You are a logical and analytical AI assistant. Think step-by-step and explain your reasoning clearly.") )

\* model identifiers: one with a built-in default prompt, one without, and
\* one that names a member of Object.prototype
ModelIds == {"gemma3:1b", "m1", "constructor"}

FallbackPrompt == "You are a helpful AI assistant answering a user's question."

-----------------------------------------------------------------------------
(* Prompt resolution, lines 152-161 *)

\* model_system_prompts && model_system_prompts[modelName]
HasModelPrompt(msp, modelName) == msp.given /\ Truthy(Get(msp.own, modelName))

\* !system_prompt && modelName in DEFAULT_SYSTEM_PROMPTS
UsesDefaultPrompt(system_prompt, modelName) ==
  ~Truthy(system_prompt) /\ In(modelName, DEFAULT_SYSTEM_PROMPTS)

\* a resolution in which the global prompt beats the per-model prompt
ResolvePromptGlobalFirst(modelName, system_prompt, msp) ==
  IF Truthy(system_prompt) THEN system_prompt
  ELSE IF HasModelPrompt(msp, modelName) THEN Get(msp.own, modelName)
  ELSE IF In(modelName, DEFAULT_SYSTEM_PROMPTS) THEN Get(DEFAULT_SYSTEM_PROMPTS, modelName)
  ELSE Str(FallbackPrompt)

ResolvePrompt(modelName, system_prompt, msp) ==
  IF HasModelPrompt(msp, modelName) THEN Get(msp.own, modelName)
  ELSE IF UsesDefaultPrompt(system_prompt, modelName)
       THEN Get(DEFAULT_SYSTEM_PROMPTS, modelName)
  ELSE IF Truthy(system_prompt) THEN system_prompt
  ELSE Str(FallbackPrompt)

\* modelSystemPrompt.substring(0, 50) of line 163 throws a TypeError when the
\* resolved value is not a string
DebugLogThrows(prompt) == prompt.t # "string"

-----------------------------------------------------------------------------
(* Formatting of the composite document, lines 200-205 *)

\* toUpperCase on one character
UpperChar(c) ==
  CASE c = "a" -> "A"
    [] c = "b" -> "B"
    [] c = "c" -> "C"
    [] c = "d" -> "D"
    [] c = "e" -> "E"
    [] c = "f" -> "F"
    [] c = "g" -> "G"
    [] c = "h" -> "H"
    [] c = "i" -> "I"
    [] c = "j" -> "J"
    [] c = "k" -> "K"
    [] c = "l" -> "L"
    [] c = "m" -> "M"
    [] c = "n" -> "N"
    [] c = "o" -> "O"
    [] c = "p" -> "P"
    [] c = "q" -> "Q"
    [] c = "r" -> "R"
    [] c = "s" -> "S"
    [] c = "t" -> "T"
    [] c = "u" -> "U"
    [] c = "v" -> "V"
    [] c = "w" -> "W"
    [] c = "x" -> "X"
    [] c = "y" -> "Y"
    [] c = "z" -> "Z"
    [] OTHER -> c

RECURSIVE UpperFrom(_, _)
\* the characters of s from position i on, each in upper case
UpperFrom(s, i) ==
  IF i > Len(s) THEN ""
  ELSE UpperChar(SubSeq(s, i, i)) \o UpperFrom(s, i + 1)

\* the identifiers a batch entry can carry ("" is the entry of a pending promise)
KnownIds == ModelIds \cup {DEFAULT_MODELS[i] : i \in 1..Len(DEFAULT_MODELS)} \cup {""}

\* toUpperCase of the known identifiers, computed once
UpperCased == [m \in KnownIds |-> UpperFrom(m, 1)]

\* s.toUpperCase()
ToUpperCase(s) == IF s \in KnownIds THEN UpperCased[s] ELSE UpperFrom(s, 1)

\* the cap of the prompt preview, substring(0, 100) and length > 100
PreviewLen == 100

\* a preview that marks a prompt of exactly the cap as truncated
PreviewOffByOne(p) ==
  Substring0(p, PreviewLen) \o (IF Len(p) >= PreviewLen THEN "..." ELSE "")

\* resp.systemPrompt.substring(0, 100) plus '...' when the prompt is longer
Preview(p) ==
  Substring0(p, PreviewLen) \o (IF Len(p) > PreviewLen THEN "..." ELSE "")

\* const roleInfo = resp.systemPrompt ? `*Role: ...*\n\n` : ''
RoleInfo(resp) ==
  IF Truthy(resp.systemPrompt)
  THEN "*Role: " \o Preview(resp.systemPrompt.v) \o "*\n\n"
  ELSE ""

\* `## ${resp.model.toUpperCase()} RESPONSE:\n${roleInfo}${resp.response}\n\n`
Section(resp) ==
  "## " \o ToUpperCase(resp.model) \o " RESPONSE:\n" \o RoleInfo(resp)
  \o ToStr(resp.response) \o "\n\n"

RECURSIVE SectionsFrom(_, _)
\* the sections of the entries of rs from index i on, concatenated
SectionsFrom(rs, i) ==
  IF i > Len(rs) THEN "" ELSE Section(rs[i]) \o SectionsFrom(rs, i + 1)

\* a join that puts the sections in the reverse of the batch order
JoinSectionsReversed(rs) == SectionsFrom([i \in 1..Len(rs) |-> rs[Len(rs) + 1 - i]], 1)

\* responses.map(...).join("")
JoinSections(rs) == SectionsFrom(rs, 1)

DocHeader == "# Responses from Multiple Models\n\n"

ClosingNote == "\n\nConsider the perspectives above when formulating your response. You may agree or disagree with any of these models. Note that these are all compact 1-1.5B parameter models, so take that into account when evaluating their responses."

FormattedText(rs) == DocHeader \o JoinSections(rs) \o ClosingNote

\* resp.systemPrompt.substring is not a function: a truthy non-string prompt
FormatThrows(rs) ==
  \E i \in 1..Len(rs) : Truthy(rs[i].systemPrompt) /\ rs[i].systemPrompt.t # "string"

\* a handler that reports an error as soon as one entry is a failed one
HandlerResultFailFast(rs) ==
  IF FormatThrows(rs) \/ \E i \in 1..Len(rs) : rs[i].error
  THEN [isError |-> TRUE,
        text |-> "Error querying models: resp.systemPrompt.substring is not a function"]
  ELSE [isError |-> FALSE, text |-> FormattedText(rs)]

\* the handler's return value: lines 207-214, or the outer catch, lines 215-226
HandlerResult(rs) ==
  IF FormatThrows(rs)
  THEN [isError |-> TRUE,
        text |-> "Error querying models: resp.systemPrompt.substring is not a function"]
  ELSE [isError |-> FALSE, text |-> FormattedText(rs)]

-----------------------------------------------------------------------------
(* Inputs: the arguments a caller can pass to query-models, lines 134-139 *)

\* a global system prompt of exactly PreviewLen characters
GlobalPrompt == "You are a careful reviewer. Weigh the evidence, name the trade-offs and state one recommendation...."

\* a per-model system prompt longer than PreviewLen characters
LongPrompt == "You are a sceptical domain expert. Challenge the premises of the question, list the risks, and then give advice."

ShortPrompt == "Answer briefly."

\* question: z.string(); undefined stands for an omitted question
Questions == {Undefined, Str(""), Str("test")}

TargetLists == UNION {[1..n -> ModelIds] : n \in 0..MaxTargets}

\* models: z.array(z.string()).optional()
ModelsArgs ==
  {[given |-> FALSE, list |-> <<>>]} \cup {[given |-> TRUE, list |-> l] : l \in TargetLists}

\* system_prompt: z.string().optional()
SystemPromptArgs == {Undefined, Str(""), Str(GlobalPrompt)}

NoOwn == [k \in {} |-> Undefined]

\* model_system_prompts: z.record(z.string()).optional()
ModelPromptArgs ==
  { [given |-> FALSE, own |-> NoOwn],
    [given |-> TRUE, own |-> NoOwn],
    [given |-> TRUE,
     own |-> ("m1" :> Str("")) @@ ("gemma3:1b" :> Str(LongPrompt))
             @@ ("constructor" :> Str(ShortPrompt))] }

\* the response texts the backend may generate
ReplyTexts == {"A", "B"}

ArgSets ==
  [question : Questions, models : ModelsArgs, system_prompt : SystemPromptArgs,
   model_system_prompts : ModelPromptArgs]

NoArgs ==
  [question |-> Undefined, models |-> [given |-> FALSE, list |-> <<>>],
   system_prompt |-> Undefined, model_system_prompts |-> [given |-> FALSE, own |-> NoOwn]]

NoResult == [isError |-> FALSE, text |-> ""]

-----------------------------------------------------------------------------
(* The per-model callback of modelsToQuery.map, lines 149-196 *)

\* the value returned by the try block, lines 183-187
SuccessEntry(modelName, data, prompt) ==
  [model |-> modelName, response |-> data, systemPrompt |-> prompt, error |-> FALSE]

\* the value returned by the catch block, lines 190-194
FailureEntry(modelName) ==
  [model |-> modelName,
   response |-> Str("Error: Could not get response from " \o modelName
                    \o ". Make sure this model is available in Ollama."),
   systemPrompt |-> Undefined, error |-> TRUE]

\* a promise that has not settled yet
Pending == [model |-> "", response |-> Undefined, systemPrompt |-> Undefined, error |-> FALSE]

\* a request body with the question and the system prompt exchanged
RequestBodySwapped(i, modelName, question, prompt) ==
  [target |-> i, model |-> modelName, prompt |-> prompt, system |-> question,
   stream |-> FALSE]

\* the body of the generation request, lines 170-175
RequestBody(i, modelName, question, prompt) ==
  [target |-> i, model |-> modelName, prompt |-> question, system |-> prompt,
   stream |-> FALSE]

N == Len(modelsToQuery)

\* a join that resolves as soon as one promise has settled
AnySettled == N = 0 \/ \E i \in 1..Len(cb) : cb[i].pos = "returned"

\* Promise.all resolves when every promise of the array has settled
AllSettled == \A i \in 1..N : i <= Len(cb) /\ cb[i].pos = "returned"

\* a continuation of a callback runs only after the synchronous map has returned
SyncDone == pc = "await"

-----------------------------------------------------------------------------
(* The list-available-models handler, lines 71-127 *)

OLLAMA_API_URL == "http://localhost:11434"

\* 1024 * 1024 * 1024
GiB == 1073741824

\* 1024 * 1024, used to keep the arithmetic of toFixed within 32 bits
MiB == 1048576

\* the decimal digit d as a character
DigitChar(d) == SubSeq("0123456789", d + 1, d + 1)

RECURSIVE IntToStr(_)
\* the decimal representation of a natural number
IntToStr(n) == IF n < 10 THEN DigitChar(n) ELSE IntToStr(n \div 10) \o DigitChar(n % 10)

\* size / 2^30 in hundredths, rounded half up as toFixed(2) rounds:
\* floor((size * 100 + 2^29) / 2^30), computed on the MiB digits of size
Hundredths(size) ==
  LET r == size % GiB
      x == (r \div MiB) * 100 + 512
      y == ((r % MiB) * 100) \div MiB
  IN (size \div GiB) * 100 + ((x + y) \div 1024)

\* (model.size / (1024 * 1024 * 1024)).toFixed(2)
ToFixed2GB(size) ==
  IntToStr(Hundredths(size) \div 100) \o "."
  \o DigitChar((Hundredths(size) % 100) \div 10) \o DigitChar(Hundredths(size) % 10)

\* model.details?.parameter_size || "Unknown"
ParamSize(model) ==
  IF model.details.given /\ Truthy(model.details.parameter_size)
  THEN model.details.parameter_size.v ELSE "Unknown"

\* model.details?.quantization_level || "Unknown"
QuantLevel(model) ==
  IF model.details.given /\ Truthy(model.details.quantization_level)
  THEN model.details.quantization_level.v ELSE "Unknown"

\* the line of one catalog entry, line 98
ModelLine(model) ==
  "- **" \o model.name \o "**: " \o ParamSize(model) \o " parameters, "
  \o ToFixed2GB(model.size) \o " GB, " \o QuantLevel(model) \o " quantization"

RECURSIVE JoinFrom(_, _, _)
\* lines.join(sep), from index i on
JoinFrom(lines, sep, i) ==
  IF i > Len(lines) THEN ""
  ELSE IF i = Len(lines) THEN lines[i]
  ELSE lines[i] \o sep \o JoinFrom(lines, sep, i + 1)

\* data.models.map(...).join("\n"), lines 93-99
ModelInfo(models) == JoinFrom([k \in 1..Len(models) |-> ModelLine(models[k])], "\n", 1)

\* a check that takes a catalog name that merely starts with the default's name
IsAvailablePrefix(model, models) ==
  \E k \in 1..Len(models) :
    /\ Len(models[k].name) >= Len(model)
    /\ SubSeq(models[k].name, 1, Len(model)) = model

\* data.models.some(m => m.name === model), line 103
IsAvailable(model, models) == \E k \in 1..Len(models) : models[k].name = model

\* U+2713 CHECK MARK, written in ASCII
CheckMark == "(check)"

\* U+26A0 U+FE0F WARNING SIGN, written in ASCII
WarningSign == "(warning)"

\* the annotation of one configured default, line 104
DefaultLine(model, models) ==
  "- **" \o model \o "**: "
  \o (IF IsAvailable(model, models)
      THEN CheckMark \o " Available" ELSE WarningSign \o " Not available")

\* DEFAULT_MODELS.map(...).join("\n"), lines 102-105
DefaultModelsInfo(models) ==
  JoinFrom([k \in 1..Len(DEFAULT_MODELS) |-> DefaultLine(DEFAULT_MODELS[k], models)], "\n", 1)

ListHeading == "# Available Ollama Models\n\n"

DefaultsHeading == "\n\n## Current Default Models\n\n"

ListFooter == "\n\nYou can use any of the available models with the query-models tool by specifying them in the 'models' parameter."

\* the text of a successful listing, line 111
ListText(models) ==
  ListHeading \o ModelInfo(models) \o DefaultsHeading \o DefaultModelsInfo(models)
  \o ListFooter

\* the result of a successful listing, lines 107-114
ListResult(models) == [isError |-> FALSE, text |-> ListText(models)]

\* the result for a body without a models array, lines 81-90
UnexpectedFormatResult ==
  [isError |-> FALSE,
   text |-> "No models found or unexpected response format from Ollama API."]

\* the result of the catch block, lines 115-126
ListErrorResult(message) ==
  [isError |-> TRUE,
   text |-> "Error listing models: " \o message
            \o "\n\nMake sure Ollama is running and accessible at " \o OLLAMA_API_URL \o "."]

\* a handler without the catch block: the fault leaves the handler
ListNoCatch(message) == [pc |-> "faulted", result |-> NoResult]

\* the catch block, lines 115-126: the handler returns an error result
ListCatch(message) == [pc |-> "done", result |-> ListErrorResult(message)]

\* error.message of the failures the try block can raise
ListErrorMessage(outcome) ==
  CASE outcome = "neterr" -> "request to " \o OLLAMA_API_URL \o "/api/tags failed"
    [] outcome = "http" -> "HTTP error! status: 500"
    [] outcome = "badjson" -> "invalid json response body"
    [] outcome = "null" -> "Cannot read properties of null (reading 'models')"

\* entries the backend's catalog may hold
CatalogEntries ==
  { [name |-> "gemma3:1b", size |-> 1073741824,
     details |-> [given |-> TRUE, parameter_size |-> Str("1B"),
                  quantization_level |-> Str("Q4")]],
    [name |-> "m1", size |-> 815319791,
     details |-> [given |-> FALSE, parameter_size |-> Undefined,
                  quantization_level |-> Undefined]],
    [name |-> "llama3.2:1b-8k", size |-> 1610612736,
     details |-> [given |-> TRUE, parameter_size |-> Str("1.2B"),
                  quantization_level |-> Str("")]] }

\* the catalogs the backend may return: { models: [...] }
Catalogs == UNION {[1..n -> CatalogEntries] : n \in 0..MaxCatalog}

\* the outcomes of response.json() of the listing: it rejects, or it resolves
\* with null, with an object without a models array, or with a catalog
ListBodies ==
  {[kind |-> k, models |-> <<>>] : k \in {"badjson", "null", "nomodels"}}
  \cup {[kind |-> "catalog", models |-> c] : c \in Catalogs}

\* the invocations of query-models that may be in progress at the same time
Invocations == {1, 2}

\* an invocation that has not started
IdleCall == [pc |-> "idle", targets |-> <<>>, cb |-> <<>>, wire |-> <<>>, responses |-> <<>>]

\* no listing call is running
NoListing == [active |-> FALSE, requests |-> 0, outcome |-> "none", models |-> <<>>]

\* the call before this one was not a successful listing
NoLast == [known |-> FALSE, models |-> <<>>, text |-> ""]

-----------------------------------------------------------------------------
(* State machine *)

Init ==
  /\ pc = "idle"
  /\ args = NoArgs
  /\ modelsToQuery = <<>>
  /\ mapIdx = 0
  /\ cb = <<>>
  /\ requests = <<>>
  /\ backend = <<>>
  /\ responses = <<>>
  /\ result = NoResult
  /\ outOfOrder = FALSE
  /\ listing = NoListing
  /\ lastListing = NoLast
  /\ calls = [k \in Invocations |-> IdleCall]

\* the server is ready for a tool call
Idle == pc = "idle"

\* the input schema rejects the call: the handler does not run
InvokeRejected ==
  /\ Idle
  /\ \E a \in ArgSets : a.question.t # "string" /\ args' = a
  /\ pc' = "rejected"
  /\ modelsToQuery' = <<>>
  /\ mapIdx' = 0
  /\ cb' = <<>>
  /\ requests' = <<>>
  /\ backend' = <<>>
  /\ responses' = <<>>
  /\ result' = NoResult
  /\ outOfOrder' = FALSE
  /\ listing' = NoListing
  /\ lastListing' = NoLast
  /\ UNCHANGED calls

\* a selection that treats an empty list as an omitted one
TargetsOfEmptyIsOmitted(models) ==
  IF models.given /\ Len(models.list) > 0 THEN models.list ELSE DEFAULT_MODELS

\* const modelsToQuery = models || DEFAULT_MODELS (an array is always truthy)
TargetsOf(models) == IF models.given THEN models.list ELSE DEFAULT_MODELS

\* a handler that starts whatever the question is
InvokeAnyQuestion ==
  /\ Idle
  /\ \E a \in ArgSets :
       /\ args' = a
       /\ modelsToQuery' = TargetsOf(a.models)
       /\ pc' = IF Len(TargetsOf(a.models)) = 0 THEN "await" ELSE "map"
  /\ mapIdx' = 0
  /\ cb' = <<>>
  /\ requests' = <<>>
  /\ backend' = <<>>
  /\ responses' = <<>>
  /\ result' = NoResult
  /\ outOfOrder' = FALSE
  /\ listing' = NoListing
  /\ lastListing' = NoLast
  /\ UNCHANGED calls

\* the handler starts, lines 140-148
Invoke ==
  /\ Idle
  /\ \E a \in ArgSets :
       /\ a.question.t = "string"
       /\ args' = a
       /\ modelsToQuery' = TargetsOf(a.models)
       /\ pc' = IF Len(TargetsOf(a.models)) = 0 THEN "await" ELSE "map"
  /\ mapIdx' = 0
  /\ cb' = <<>>
  /\ requests' = <<>>
  /\ backend' = <<>>
  /\ responses' = <<>>
  /\ result' = NoResult
  /\ outOfOrder' = FALSE
  /\ listing' = NoListing
  /\ lastListing' = NoLast
  /\ UNCHANGED calls

\* map calls the callback of the next target, which runs up to its first
\* await (the fetch of line 165) or, when line 163 throws, to its catch
StartCallback ==
  /\ pc = "map"
  /\ mapIdx < N
  /\ LET i == mapIdx + 1
         modelName == modelsToQuery[i]
         prompt == ResolvePrompt(modelName, args.system_prompt, args.model_system_prompts)
     IN /\ mapIdx' = i
        /\ pc' = IF i = N THEN "await" ELSE "map"
        /\ IF DebugLogThrows(prompt)
           THEN /\ cb' = Append(cb, [pos |-> "returned", prompt |-> prompt,
                                     value |-> FailureEntry(modelName)])
                /\ backend' = Append(backend, "unsent")
                /\ requests' = requests
           ELSE /\ cb' = Append(cb, [pos |-> "fetch", prompt |-> prompt, value |-> Pending])
                /\ backend' = Append(backend, "sent")
                /\ requests' = Append(requests,
                                      RequestBody(i, modelName, args.question, prompt))
  /\ UNCHANGED <<args, modelsToQuery, responses, result, outOfOrder, listing, lastListing,
               calls>>

\* the callback of target i returns while an earlier target is still pending
Overtakes(i, cbs) ==
  cbs[i].pos = "returned" /\ \E j \in 1..(i - 1) : cbs[j].pos # "returned"

\* the fetch of target i settles: it rejects (network error) or resolves with
\* a status; lines 165-180
FetchSettles(i, outcome) ==
  /\ SyncDone
  /\ i \in 1..Len(cb)
  /\ cb[i].pos = "fetch"
  /\ backend' = [backend EXCEPT ![i] = outcome]
  /\ cb' = IF outcome = "ok"
           THEN [cb EXCEPT ![i].pos = "json"]
           ELSE [cb EXCEPT ![i].pos = "returned", ![i].value = FailureEntry(modelsToQuery[i])]
  /\ outOfOrder' = (outOfOrder \/ Overtakes(i, cb'))
  /\ UNCHANGED <<pc, args, modelsToQuery, mapIdx, requests, responses, result, listing,
               lastListing, calls>>

\* data.response of a parsed body
ResponseOf(body) == IF body.kind = "text" THEN Str(body.text) ELSE Undefined

\* response.json() of target i settles: it rejects (malformed body) or
\* resolves with the parsed body; lines 182-187
JsonSettles(i, body) ==
  /\ SyncDone
  /\ i \in 1..Len(cb)
  /\ cb[i].pos = "json"
  /\ backend' = [backend EXCEPT ![i] = IF body.kind = "text" THEN body.text ELSE body.kind]
  /\ cb' = IF body.kind = "badjson"
           THEN [cb EXCEPT ![i].pos = "returned", ![i].value = FailureEntry(modelsToQuery[i])]
           ELSE [cb EXCEPT ![i].pos = "returned",
                           ![i].value = SuccessEntry(modelsToQuery[i], ResponseOf(body),
                                                     cb[i].prompt)]
  /\ outOfOrder' = (outOfOrder \/ Overtakes(i, cb'))
  /\ UNCHANGED <<pc, args, modelsToQuery, mapIdx, requests, responses, result, listing,
               lastListing, calls>>

\* a batch that leaves out the targets that failed
ValuesDropFailed ==
  SelectSeq([i \in 1..Len(cb) |-> cb[i].value], LAMBDA e : ~e.error)

\* a join that gives up the whole batch when one target failed
ValuesFailFast ==
  IF \E i \in 1..Len(cb) : cb[i].value.error
  THEN <<>>
  ELSE [i \in 1..Len(cb) |-> cb[i].value]

\* the values Promise.all resolves with: the i-th promise's value at index i
Values == [i \in 1..N |-> IF i <= Len(cb) THEN cb[i].value ELSE Pending]

\* Promise.all resolves and the handler formats and returns, lines 148, 199-226
Join ==
  /\ pc = "await"
  /\ AllSettled
  /\ responses' = Values
  /\ result' = HandlerResult(Values)
  /\ pc' = "done"
  /\ UNCHANGED <<args, modelsToQuery, mapIdx, cb, requests, backend, outOfOrder, listing,
               lastListing, calls>>

\* the result (or the rejection) has gone back to the caller; the server
\* keeps running and takes the next call
Deliver ==
  /\ pc \in {"done", "rejected"}
  /\ pc' = "idle"
  /\ args' = NoArgs
  /\ modelsToQuery' = <<>>
  /\ mapIdx' = 0
  /\ cb' = <<>>
  /\ requests' = <<>>
  /\ backend' = <<>>
  /\ responses' = <<>>
  /\ result' = NoResult
  /\ outOfOrder' = FALSE
  /\ listing' = NoListing
  /\ lastListing' = IF listing.active /\ listing.outcome = "catalog"
                    THEN [known |-> TRUE, models |-> listing.models, text |-> result.text]
                    ELSE NoLast
  /\ UNCHANGED calls

\* a listing that answers from the preceding listing instead of from this response
DataCached(body) == IF lastListing.known THEN lastListing.models ELSE body.models

\* data.models of the body this invocation's own request returned, line 79
DataOf(body) == body.models

\* list-available-models is invoked: fetch(`${OLLAMA_API_URL}/api/tags`), line 73
ListInvoke ==
  /\ Idle
  /\ pc' = "listFetch"
  /\ listing' = [active |-> TRUE, requests |-> 1, outcome |-> "sent", models |-> <<>>]
  /\ UNCHANGED <<args, modelsToQuery, mapIdx, cb, requests, backend, responses, result,
                 outOfOrder, lastListing, calls>>

\* the fetch of the listing settles: rejection or !response.ok end in the catch
\* block (lines 75-77, 115-126), a 2xx goes on to response.json()
ListFetchSettles(outcome) ==
  /\ pc = "listFetch"
  /\ listing' = [listing EXCEPT !.outcome = outcome]
  /\ IF outcome = "ok"
     THEN /\ pc' = "listJson"
          /\ UNCHANGED result
     ELSE /\ pc' = ListCatch(ListErrorMessage(outcome)).pc
          /\ result' = ListCatch(ListErrorMessage(outcome)).result
  /\ UNCHANGED <<args, modelsToQuery, mapIdx, cb, requests, backend, responses,
                 outOfOrder, lastListing, calls>>

\* response.json() of the listing settles, lines 79-114
ListJsonSettles(body) ==
  /\ pc = "listJson"
  /\ listing' = [listing EXCEPT !.outcome = body.kind, !.models = body.models]
  /\ pc' = IF body.kind \in {"badjson", "null"}
           THEN ListCatch(ListErrorMessage(body.kind)).pc ELSE "done"
  /\ result' = CASE body.kind \in {"badjson", "null"} ->
                     ListCatch(ListErrorMessage(body.kind)).result
                  [] body.kind = "nomodels" -> UnexpectedFormatResult
                  [] body.kind = "catalog" -> ListResult(DataOf(body))
  /\ UNCHANGED <<args, modelsToQuery, mapIdx, cb, requests, backend, responses,
                 outOfOrder, lastListing, calls>>

FetchOutcomes == {"neterr", "http", "ok"}

Bodies ==
  {[kind |-> "badjson", text |-> ""], [kind |-> "noresp", text |-> ""]}
  \cup {[kind |-> "text", text |-> t] : t \in ReplyTexts}

Next ==
  \/ InvokeRejected
  \/ Invoke
  \/ StartCallback
  \/ \E i \in 1..Len(cb), o \in FetchOutcomes : FetchSettles(i, o)
  \/ \E i \in 1..Len(cb), b \in Bodies : JsonSettles(i, b)
  \/ Join
  \/ ListInvoke
  \/ \E o \in FetchOutcomes : ListFetchSettles(o)
  \/ \E b \in ListBodies : ListJsonSettles(b)
  \/ Deliver

Spec == Init /\ [][Next]_vars

\* the event loop runs every enabled continuation, and the backend answers
FairSpec == Spec /\ WF_vars(StartCallback) /\ WF_vars(Join)

-----------------------------------------------------------------------------
(* Two invocations of query-models in progress at the same time.  The handler
   is an async function: a second call can start at any await of the first.
   Each call has its own modelsToQuery and its own callbacks; every callback
   holds its response and data in constants of its own closure. *)

\* the variables of the single-invocation machine
single ==
  <<pc, args, modelsToQuery, mapIdx, cb, requests, backend, responses, result, outOfOrder,
    listing, lastListing>>

\* the models arguments of the overlapping calls
OverlapLists == {<<"m1">>, <<"m1", "gemma3:1b">>, <<"m1", "m1">>}

\* the prompt of a call that passes neither system_prompt nor model_system_prompts
PlainPrompt(modelName) == ResolvePrompt(modelName, Undefined, [given |-> FALSE, own |-> NoOwn])

\* a callback that reads the response of the first request of the first call
RouteShared(k, i) == <<1, 1>>

\* the request whose response the continuation of callback i of call k reads:
\* const response = await fetch(...) and const data = await response.json()
\* are constants of that callback's own closure, lines 165 and 182
Route(k, i) == <<k, i>>

\* data.response as read by callback i of call k, given the backend's answers w
DataRead(w, k, i) ==
  LET r == Route(k, i)
  IN IF r[2] \in DOMAIN w[r[1]] /\ w[r[1]][r[2]] \in ReplyTexts
     THEN Str(w[r[1]][r[2]]) ELSE Undefined

\* call k starts: map runs every callback up to its fetch before the handler
\* yields at the await of line 148
OInvoke(k, list) ==
  /\ calls[k].pc = "idle"
  /\ calls' = [calls EXCEPT ![k] =
                 [pc |-> "await", targets |-> list,
                  cb |-> [i \in 1..Len(list) |->
                            [pos |-> "fetch", prompt |-> PlainPrompt(list[i]),
                             value |-> Pending]],
                  wire |-> [i \in 1..Len(list) |-> "sent"],
                  responses |-> <<>>]]
  /\ UNCHANGED single

\* the fetch of callback i of call k settles, lines 165-180
OFetchSettles(k, i, outcome) ==
  /\ calls[k].pc = "await"
  /\ i \in 1..Len(calls[k].cb)
  /\ calls[k].cb[i].pos = "fetch"
  /\ calls' = [calls EXCEPT
                 ![k].wire[i] = outcome,
                 ![k].cb[i].pos = IF outcome = "ok" THEN "json" ELSE "returned",
                 ![k].cb[i].value = IF outcome = "ok" THEN Pending
                                    ELSE FailureEntry(calls[k].targets[i])]
  /\ UNCHANGED single

\* the backend's body for request i of call k arrives and the callback
\* returns its entry, lines 182-187
OJsonSettles(k, i, text) ==
  /\ calls[k].pc = "await"
  /\ i \in 1..Len(calls[k].cb)
  /\ calls[k].cb[i].pos = "json"
  /\ LET w == [c \in Invocations |->
                 IF c = k THEN [calls[k].wire EXCEPT ![i] = text] ELSE calls[c].wire]
     IN calls' = [calls EXCEPT
                    ![k].wire = w[k],
                    ![k].cb[i].pos = "returned",
                    ![k].cb[i].value = SuccessEntry(calls[k].targets[i], DataRead(w, k, i),
                                                    calls[k].cb[i].prompt)]
  /\ UNCHANGED single

\* Promise.all of call k resolves, line 148
OJoin(k) ==
  /\ calls[k].pc = "await"
  /\ \A i \in 1..Len(calls[k].cb) : calls[k].cb[i].pos = "returned"
  /\ calls' = [calls EXCEPT
                 ![k].pc = "done",
                 ![k].responses = [i \in 1..Len(calls[k].cb) |-> calls[k].cb[i].value]]
  /\ UNCHANGED single

\* the result of call k has gone back to its caller
ODeliver(k) ==
  /\ calls[k].pc = "done"
  /\ calls' = [calls EXCEPT ![k] = IdleCall]
  /\ UNCHANGED single

OverlapNext ==
  \/ \E k \in Invocations, list \in OverlapLists : OInvoke(k, list)
  \/ \E k \in Invocations :
       \E i \in 1..Len(calls[k].cb), o \in {"neterr", "ok"} : OFetchSettles(k, i, o)
  \/ \E k \in Invocations :
       \E i \in 1..Len(calls[k].cb), t \in ReplyTexts : OJsonSettles(k, i, t)
  \/ \E k \in Invocations : OJoin(k)
  \/ \E k \in Invocations : ODeliver(k)

OverlapSpec == Init /\ [][OverlapNext]_vars

-----------------------------------------------------------------------------
(* Properties *)

\* the target list of the invocation, from its arguments
Targets == TargetsOf(args.models)

\* the generation of target i failed: it was never requested, the fetch
\* rejected, the status was not 2xx, or the body could not be parsed
FailedCall(i) == backend[i] \in {"unsent", "neterr", "http", "badjson"}

\* data.response of what the backend answered to target i
BackendResponse(i) == IF backend[i] \in ReplyTexts THEN Str(backend[i]) ELSE Undefined

\* C1: the batch has one entry per target, the i-th entry carrying the i-th
\* target's identifier, whatever fails and in whatever order the responses
\* complete
C1_BatchMatchesTargets ==
  (pc = "done" /\ ~listing.active) =>
    /\ Len(responses) = Len(Targets)
    /\ \A i \in 1..Len(Targets) : responses[i].model = Targets[i]

\* a batch of a repeated identifier, one entry failed and one not, the later
\* target having completed first
C1_Witness ==
  /\ pc = "done"
  /\ Len(responses) = 2
  /\ responses[1].model = responses[2].model
  /\ responses[1].error /\ ~responses[2].error
  /\ outOfOrder

C3_WaitForAll ==
  /\ [](pc = "done" => \A i \in 1..N : i <= Len(cb) /\ cb[i].pos = "returned")
  /\ ((pc = "await" /\ \A i \in 1..N : i <= Len(cb) /\ cb[i].pos = "returned")
        ~> pc = "done")

\* one target has failed and the handler is still waiting for another
C3_Witness ==
  /\ pc = "await"
  /\ \E i \in 1..Len(cb) : cb[i].pos = "returned" /\ cb[i].value.error
  /\ \E j \in 1..Len(cb) : cb[j].pos # "returned"

\* the caller's per-model mapping has an entry for model m
HasEntry(m) == args.model_system_prompts.given /\ m \in DOMAIN args.model_system_prompts.own

\* the requests issued for target i
RequestsOf(i) == {k \in 1..Len(requests) : requests[k].target = i}

C5_GlobalPromptWins ==
  \A i \in 1..Len(cb) :
    (~HasEntry(modelsToQuery[i]) /\ Truthy(args.system_prompt)) =>
      cb[i].prompt = args.system_prompt

\* C6 as stated: without per-model entry and without global prompt, a key of
\* the built-in map resolves to its default, and any other identifier
\* resolves to the generic fallback and is dispatched
C6_DefaultOrFallback ==
  \A i \in 1..Len(cb) :
    (~HasEntry(modelsToQuery[i]) /\ ~Truthy(args.system_prompt)) =>
      IF modelsToQuery[i] \in DOMAIN DEFAULT_SYSTEM_PROMPTS
      THEN cb[i].prompt = DEFAULT_SYSTEM_PROMPTS[modelsToQuery[i]]
      ELSE cb[i].prompt = Str(FallbackPrompt) /\ RequestsOf(i) # {}

C8_FailureClassification ==
  \A i \in 1..Len(cb) :
    cb[i].pos = "returned" =>
      /\ backend[i] \in {"neterr", "http", "badjson", "noresp"} =>
           cb[i].value = FailureEntry(modelsToQuery[i])
      /\ ~cb[i].value.error => backend[i] \in ReplyTexts

\* C9 as stated: once the map has run, exactly one generation request has
\* been issued per entry of the target list, N in all
C9_OneRequestPerTarget ==
  pc \in {"await", "done"} =>
    /\ Len(requests) = N
    /\ \A i \in 1..N : Cardinality(RequestsOf(i)) = 1

\* the prompt resolved for the i-th target of the invocation
Resolved(i) == ResolvePrompt(Targets[i], args.system_prompt, args.model_system_prompts)

\* C10 as stated: every entry, failed or not, carries the prompt resolved
\* for its model
C10_EveryEntryCarriesPrompt ==
  (pc = "done" /\ ~listing.active) => \A i \in 1..Len(responses) : responses[i].systemPrompt = Resolved(i)

\* the section of entry i: the label, for a non-failed entry the first 100
\* characters of its prompt with an ellipsis exactly when it is longer, then
\* the response value
C10_Section(i) ==
  "## " \o ToUpperCase(Targets[i]) \o " RESPONSE:\n"
  \o (IF responses[i].error
      THEN ""
      ELSE "*Role: " \o SubSeq(Resolved(i).v, 1, Min(100, Len(Resolved(i).v)))
           \o (IF Len(Resolved(i).v) > 100 THEN "..." ELSE "") \o "*\n\n")
  \o ToStr(responses[i].response) \o "\n\n"

RECURSIVE C10_SectionsFrom(_)
C10_SectionsFrom(i) ==
  IF i > Len(responses) THEN "" ELSE C10_Section(i) \o C10_SectionsFrom(i + 1)

\* C10 amended: a non-failed entry carries the prompt resolved for its model
\* and its section previews it before the response; a failed entry carries
\* no prompt and its section holds the placeholder without a preview
C10_NonFailedEntryCarriesPrompt ==
  (pc = "done" /\ ~listing.active) =>
    /\ \A i \in 1..Len(responses) :
         responses[i].systemPrompt = IF responses[i].error THEN Undefined ELSE Resolved(i)
    /\ ~result.isError
    /\ result.text = DocHeader \o C10_SectionsFrom(1) \o ClosingNote

\* a batch with a failed entry, an entry whose prompt is longer than the cap
\* and one whose prompt has exactly the length of the cap
C10_Witness ==
  /\ pc = "done"
  /\ \E i \in 1..Len(responses) : responses[i].error
  /\ \E i \in 1..Len(responses) :
       ~responses[i].error /\ Len(responses[i].systemPrompt.v) > PreviewLen
  /\ \E i \in 1..Len(responses) :
       ~responses[i].error /\ Len(responses[i].systemPrompt.v) = PreviewLen

-----------------------------------------------------------------------------
(* list-available-models *)

\* the listing call has ended with the given outcome
ListEnded(outcomes) ==
  listing.active /\ listing.outcome \in outcomes /\ pc \notin {"listFetch", "listJson"}

\* C11: when the listing endpoint answers 2xx with a body that has no models
\* array, the handler returns a descriptive result that is marked as an error
C11_MalformedCatalogIsError ==
  ListEnded({"null", "nomodels"}) =>
    pc = "done" /\ result.isError /\ Len(result.text) > 0

\* C12: when the listing request fails (network error or non-2xx status) the
\* handler returns a result marked as an error whose text names the failure
\* and the backend address, the result goes back to the caller, and the idle
\* server accepts a following list-available-models and a following
\* query-models call
C12_BackendUnreachable ==
  /\ ListEnded({"neterr", "http"}) =>
       /\ pc = "done"
       /\ result.isError
       /\ result.text = "Error listing models: " \o ListErrorMessage(listing.outcome)
                        \o "\n\nMake sure Ollama is running and accessible at "
                        \o "http://localhost:11434."
       /\ ENABLED Deliver
  /\ pc = "idle" => ENABLED ListInvoke /\ ENABLED Invoke
  /\ pc \in {"idle", "rejected", "map", "await", "done", "listFetch", "listJson"}

\* the listing got a non-2xx status and has returned
C12_Witness == ListEnded({"http"}) /\ pc = "done" /\ result.isError

\* C13: every listing call sends one request of its own and its text is that
\* of the catalog returned to that request: equal to the preceding listing's
\* text when the catalog is the same, and different from it, showing the new
\* catalog, when the catalog has changed in between
C13_NoCachingIdempotent ==
  /\ listing.active => listing.requests = 1
  /\ ListEnded({"catalog"}) =>
       /\ pc = "done"
       /\ result = [isError |-> FALSE, text |-> ListText(listing.models)]
       /\ lastListing.known =>
            (lastListing.models = listing.models <=> result.text = lastListing.text)

\* a listing has returned after a listing that was given another catalog
C13_Witness ==
  /\ ListEnded({"catalog"})
  /\ pc = "done"
  /\ lastListing.known
  /\ Len(lastListing.models) = 2
  /\ Len(listing.models) = 2
  /\ lastListing.models # listing.models

-----------------------------------------------------------------------------
(* query-models: fan-out, containment, layout *)

\* the handler has consumed the backend's answer to some target
SomeResponseConsumed ==
  \E i \in 1..Len(backend) : backend[i] \notin {"sent", "unsent"}

\* C14 as stated: by the time the handler consumes any target's response the
\* map has run over all N targets and a generation request has been issued
\* for each of them, and a target whose response is still outstanding keeps
\* no other target's request from having been issued
C14_AllIssuedBeforeAnyConsumed ==
  /\ SomeResponseConsumed =>
       /\ mapIdx = N
       /\ \A i \in 1..N : RequestsOf(i) # {}
  /\ \A i \in 1..Len(cb) :
       (pc = "await" /\ cb[i].pos = "fetch") => \A j \in 1..N : RequestsOf(j) # {}

\* C15: a call of either tool that has ended has returned a result value with
\* a text, which goes back to the caller; a listing is marked as an error
\* exactly when its try block threw; a query-models result is never marked as
\* an error, however many of its targets failed; and once every callback has
\* settled the handler can return
C15_FaultContainment ==
  /\ pc \in {"idle", "rejected", "map", "await", "done", "listFetch", "listJson"}
  /\ pc = "done" =>
       /\ result.isError \in BOOLEAN
       /\ Len(result.text) > 0
       /\ ENABLED Deliver
       /\ listing.active =>
            (result.isError <=> listing.outcome \in {"neterr", "http", "badjson", "null"})
       /\ ~listing.active =>
            /\ ~result.isError
            /\ Len(responses) = N
  /\ (pc = "await" /\ AllSettled) => ENABLED Join

\* a query whose two targets both failed, one before its request and one at
\* the backend, has returned a normal result
C15_Witness ==
  /\ pc = "done"
  /\ ~listing.active
  /\ N = 2
  /\ backend[1] = "unsent"
  /\ backend[2] \in {"neterr", "http", "badjson"}
  /\ responses[1].error /\ responses[2].error
  /\ ~result.isError

\* the positions at which the text t holds the text m: those where t holds
\* the first character of m and then all of m
Occurrences(m, t) ==
  UNION { {p \in 1..(Len(t) - Len(m) + 1) :
             SubSeq(t, p, p) = c /\ SubSeq(t, p, p + Len(m) - 1) = m}
          : c \in {SubSeq(m, 1, 1)} }

\* the i-th smallest member of a set of positions
Nth(S, i) == CHOOSE p \in S : Cardinality({q \in S : q < p}) = i - 1

\* the end of a section label
LabelEnd == " RESPONSE:\n"

\* the start of the closing note
NoteStart == "\n\nConsider the perspectives above"

\* C16: the composite of a batch holds exactly as many section labels as the
\* batch has entries, the i-th label being that of the i-th entry (so of the
\* i-th target), failed or not and whatever the completion order, and the
\* closing note occurs exactly once, as the end of the text after the last
\* section
C16_CompositeLayout ==
  (pc = "done" /\ ~listing.active) =>
    LET t == result.text
        noteAt == Len(t) - Len(ClosingNote) + 1
    IN /\ SubSeq(t, noteAt, Len(t)) = ClosingNote
       /\ Occurrences(NoteStart, t) = {noteAt}
       /\ \A labels \in {Occurrences(LabelEnd, t)} :
            /\ Cardinality(labels) = Len(responses)
            /\ \A p \in labels : p < noteAt
            /\ \A i \in 1..Len(responses) :
                 LET label == "## " \o ToUpperCase(Targets[i])
                     p == Nth(labels, i)
                 IN /\ p > Len(label)
                    /\ SubSeq(t, p - Len(label), p - 1) = label
                    /\ responses[i].model = Targets[i]

\* a batch of two different targets, the first failed and the second not,
\* the second having completed first
C16_Witness ==
  /\ pc = "done"
  /\ ~listing.active
  /\ Len(responses) = 2
  /\ responses[1].model # responses[2].model
  /\ responses[1].error
  /\ ~responses[2].error
  /\ outOfOrder

-----------------------------------------------------------------------------
(* list-available-models: the defaults *)

\* the annotation expected for the k-th configured default under a catalog
C17_Annotation(k, models) ==
  "- **" \o DEFAULT_MODELS[k] \o "**: "
  \o (IF DEFAULT_MODELS[k] \in {models[j].name : j \in 1..Len(models)}
      THEN "(check) Available" ELSE "(warning) Not available")

\* C17: the text of a successful listing ends with the heading of the
\* defaults, one annotation per configured default in configured order, each
\* saying available exactly when the catalog of this call has an entry of
\* exactly that name, and the footer; the heading occurs once and is followed
\* by as many annotations as there are defaults
C17_DefaultAnnotation ==
  ListEnded({"catalog"}) =>
    LET t == result.text
        tail == "\n\n## Current Default Models\n\n"
                \o C17_Annotation(1, listing.models) \o "\n"
                \o C17_Annotation(2, listing.models) \o "\n"
                \o C17_Annotation(3, listing.models)
                \o ListFooter
        at == Len(t) - Len(tail) + 1
    IN /\ Len(DEFAULT_MODELS) = 3
       /\ at > 0
       /\ SubSeq(t, at, Len(t)) = tail
       /\ Occurrences("## Current Default Models", t) = {at + 2}
       /\ Cardinality({p \in Occurrences("- **", t) : p > at}) = 3

\* a listing has returned for a catalog that holds one default by its exact
\* name and an entry whose name only starts with another default's name
C17_Witness ==
  /\ ListEnded({"catalog"})
  /\ pc = "done"
  /\ Len(listing.models) = 2
  /\ listing.models[1].name = "llama3.2:1b-8k"
  /\ listing.models[2].name = "gemma3:1b"

-----------------------------------------------------------------------------
(* query-models: what is sent and what is recorded *)

RECURSIVE SectionOffset(_)
\* the number of characters of the composite before the section of entry i
SectionOffset(i) ==
  IF i = 1 THEN Len(DocHeader) ELSE SectionOffset(i - 1) + Len(Section(responses[i - 1]))

\* C19: every generation request carries the caller's question and its own
\* target's identifier, and every non-failed entry of the returned batch
\* records the very system prompt its target's request carried, the section
\* of the entry opening with its label and the first 100 characters of that
\* prompt
C19_PromptAndQuestionSent ==
  /\ \A k \in 1..Len(requests) :
       /\ requests[k].prompt = args.question
       /\ requests[k].model = Targets[requests[k].target]
  /\ (pc = "done" /\ ~listing.active) =>
       \A i \in 1..Len(responses) :
         ~responses[i].error =>
           \E k \in RequestsOf(i) :
             LET sent == requests[k].system
                 opening == "## " \o ToUpperCase(Targets[i]) \o " RESPONSE:\n*Role: "
                            \o SubSeq(sent.v, 1, Min(100, Len(sent.v)))
             IN /\ sent.t = "string"
                /\ responses[i].systemPrompt = sent
                /\ SubSeq(result.text, SectionOffset(i) + 1,
                          SectionOffset(i) + Len(opening)) = opening

\* a batch of two non-failed entries whose requests carried different system
\* prompts, for a non-empty question
C19_Witness ==
  /\ pc = "done"
  /\ ~listing.active
  /\ Len(responses) = 2
  /\ ~responses[1].error /\ ~responses[2].error
  /\ responses[1].systemPrompt # responses[2].systemPrompt
  /\ args.question = Str("test")
  /\ Len(requests) = 2

\* a query-models call is running or has returned
Querying == pc \in {"map", "await", "done"} /\ ~listing.active

\* C20: the targets of a call without a model list are the configured
\* defaults in configured order, those of a call with a list are that list,
\* and a call with an empty list issues no generation request and returns a
\* composite of the heading and the closing note with no section
C20_TargetSelection ==
  Querying =>
    /\ ~args.models.given =>
         modelsToQuery = <<"gemma3:1b", "llama3.2:1b", "deepseek-r1:1.5b">>
    /\ args.models.given => modelsToQuery = args.models.list
    /\ (args.models.given /\ args.models.list = <<>>) =>
         /\ requests = <<>>
         /\ cb = <<>>
         /\ pc = "done" =>
              /\ responses = <<>>
              /\ ~result.isError
              /\ Occurrences(LabelEnd, result.text) = {}
              /\ result.text = "# Responses from Multiple Models\n\n" \o ClosingNote

\* a call with an explicitly empty list has returned
C20_Witness ==
  /\ pc = "done"
  /\ ~listing.active
  /\ args.models.given
  /\ args.models.list = <<>>
  /\ requests = <<>>
  /\ Len(result.text) > 0

-----------------------------------------------------------------------------
(* query-models: correlation *)

\* C18: in each of two overlapping calls, every non-failed entry a callback
\* has returned, and every non-failed entry of a returned batch, names its
\* own target and carries the text the backend answered to that callback's
\* own request, whatever the other callbacks of the same call and of the
\* other call have received and in whatever order
C18_NoCrossTalk ==
  \A k \in Invocations :
    /\ \A i \in 1..Len(calls[k].cb) :
         (calls[k].cb[i].pos = "returned" /\ ~calls[k].cb[i].value.error) =>
           /\ calls[k].wire[i] \in ReplyTexts
           /\ calls[k].cb[i].value.response = Str(calls[k].wire[i])
           /\ calls[k].cb[i].value.model = calls[k].targets[i]
    /\ calls[k].pc = "done" =>
         /\ Len(calls[k].responses) = Len(calls[k].targets)
         /\ \A i \in 1..Len(calls[k].responses) :
              /\ calls[k].responses[i].model = calls[k].targets[i]
              /\ ~calls[k].responses[i].error =>
                   calls[k].responses[i].response = Str(calls[k].wire[i])

\* the second call has returned a batch for the same model twice, with two
\* different texts, while the first call, for the same model, has its second
\* response and still waits for its first
C18_Witness ==
  /\ calls[1].pc = "await"
  /\ calls[1].targets = <<"m1", "m1">>
  /\ calls[1].cb[1].pos = "fetch"
  /\ calls[1].cb[2].pos = "returned"
  /\ calls[1].cb[2].value.response = Str("A")
  /\ calls[2].pc = "done"
  /\ calls[2].targets = <<"m1", "m1">>
  /\ calls[2].responses[1].response = Str("B")
  /\ calls[2].responses[2].response = Str("A")

====
